---- MODULE Spec2Model ----
(***************************************************************************)
(* The human-in-the-loop verification graph of notebooks/multiagent.py:    *)
(* verify_info -> should_interrupt -> {supervisor -> END,                  *)
(* human_input -> verify_info}, run per conversation thread on top of a    *)
(* checkpointer keyed by thread id, and driven by the caller of            *)
(* cicd/test_evaluator.py (one invoke, then resumes).                      *)
(***************************************************************************)
EXTENDS Integers, Sequences, FiniteSets, TLC

(* ---------------------------------------------------------------- bounds *)
\* longest message list an initial input carries
MaxInput == 1
\* a resume is accepted only while the log is shorter than this
MaxLog == 5
\* most steps (messages) one run of the work pipeline takes
MaxWork == 2
\* the step budget a thread starts with
StepBudget == 3

(* ------------------------------------------------------------ the domain *)
\* thread identifiers (uuid4 values of run_graph)
Threads == {"t1", "t2"}

\* Python's None, distinct from every string and notably from ""
None == "<None>"

\* what users write: the initial input messages and the resume values
Texts == {"hello", "My customer ID is 10"}

\* what the structured extraction can hand back besides ""
Identifiers == {"10", "luis@example.com", "999"}

\* customer_id values an initial input can carry (None: the key is absent)
InputCustomerIds == {None, "", "42"}

HumanMessage(text) == [type |-> "human", content |-> text]

SystemMessage(text) == [type |-> "system", content |-> text]

AIMessage(text) == [type |-> "ai", content |-> text]

VARIABLES
    customer_id,      \* State.customer_id of each thread's checkpoint
    messages,         \* State.messages of each thread's checkpoint
    remaining_steps,  \* State.remaining_steps of each thread
    pc,               \* the node each thread's graph is at
    status,           \* what the caller sees of each thread's invocation
    resume,           \* the Command(resume=...) value not yet consumed
    identifier,       \* parsed_info.identifier of the last verify_info run
    called,           \* external capabilities the last verify_info run called
    outage,           \* the capability that was down when that run called it
    github,           \* the manifest file as GitHub holds it (webhook service)
    request           \* each webhook request being handled

\* the variables of the webhook service of cicd/prompthook.py
hookvars == <<github, request>>

vars == <<customer_id, messages, remaining_steps, pc, status, resume,
          identifier, called, outage, hookvars>>

(* ------------------------------------------------- external capabilities *)
\* structured_llm.invoke(...).identifier: "" or a candidate identifier; the
\* model is an LLM, so any of them can come back for any message
ExtractionOutcomes == {""} \cup Identifiers

\* get_customer_id_from_identifier: candidate -> canonical account id or ""
get_customer_id_from_identifier(ident) ==
    CASE ident = "10" -> "10"
      [] ident = "luis@example.com" -> "1"
      [] OTHER -> ""

\* the f-string of the confirmation message
ConfirmationText(cid) ==
    CASE cid = "10" -> "I was able to verify your account with customer id 10."
      [] cid = "1" -> "I was able to verify your account with customer id 1."
      [] OTHER -> "I was able to verify your account with customer id ."

\* model.invoke([SystemMessage(system_instructions)] + messages)
ClarifyingResponse == AIMessage("Please provide your customer ID, email, or phone number.")

\* what one step of the work pipeline appends
SupervisorResponse == AIMessage("Here is what I found.")

(* ---------------------------------------------------------- the reducers *)
\* convert_to_messages: a bare string becomes a human message
convert_to_messages(texts) == [i \in 1..Len(texts) |-> HumanMessage(texts[i])]

\* a messages channel without its reducer: the update replaces the list
add_messages_overwrite(left, right) == right

\* add_messages: the update is appended to what the channel holds
add_messages(left, right) == left \o right

\* a node's update dict without the customer_id key
Missing == "<missing>"

\* LastValue channel: the update replaces the value when the key is present
last_value(old, new) == IF new = Missing THEN old ELSE new

(* ------------------------------------------------------------- the nodes *)
State(t) == [customer_id |-> customer_id[t],
             messages |-> messages[t],
             remaining_steps |-> remaining_steps[t]]

\* verify_info without its `customer_id is None` guard: it verifies again
\* whatever the state already holds
verify_info_unguarded(state, parsed) ==
    IF Len(state.messages) = 0
    THEN [raised |-> TRUE, identifier |-> None, called |-> {},
          update |-> [customer_id |-> Missing, messages |-> <<>>]]
    ELSE LET cid == IF parsed # ""
                    THEN get_customer_id_from_identifier(parsed)
                    ELSE ""
             lookup == IF parsed # "" THEN {"resolution"} ELSE {}
         IN IF cid # ""
            THEN [raised |-> FALSE, identifier |-> parsed,
                  called |-> {"extraction"} \cup lookup,
                  update |-> [customer_id |-> cid,
                              messages |-> <<SystemMessage(ConfirmationText(cid))>>]]
            ELSE [raised |-> FALSE, identifier |-> parsed,
                  called |-> {"extraction", "response"} \cup lookup,
                  update |-> [customer_id |-> Missing,
                              messages |-> <<ClarifyingResponse>>]]

\* verify_info on `state`, the extraction answering `parsed`: whether it
\* raised, the update dict it returned, the capabilities it called
verify_info(state, parsed) ==
    IF state.customer_id = None
    THEN IF Len(state.messages) = 0
         THEN \* state["messages"][-1] raises IndexError
              [raised |-> TRUE, identifier |-> None, called |-> {},
               update |-> [customer_id |-> Missing, messages |-> <<>>]]
         ELSE LET cid == IF parsed # ""
                         THEN get_customer_id_from_identifier(parsed)
                         ELSE ""
                  lookup == IF parsed # "" THEN {"resolution"} ELSE {}
              IN IF cid # ""
                 THEN [raised |-> FALSE, identifier |-> parsed,
                       called |-> {"extraction"} \cup lookup,
                       update |-> [customer_id |-> cid,
                                   messages |-> <<SystemMessage(ConfirmationText(cid))>>]]
                 ELSE [raised |-> FALSE, identifier |-> parsed,
                       called |-> {"extraction", "response"} \cup lookup,
                       update |-> [customer_id |-> Missing,
                                   messages |-> <<ClarifyingResponse>>]]
    ELSE \* else: pass
         [raised |-> FALSE, identifier |-> None, called |-> {},
          update |-> [customer_id |-> Missing, messages |-> <<>>]]

\* the external capabilities verify_info calls, in the order of its calls
Capabilities == {"extraction", "resolution", "response"}

CallOrder(cap) ==
    CASE cap = "extraction" -> 1
      [] cap = "resolution" -> 2
      [] cap = "response" -> 3
      [] OTHER -> 0

NothingReturned == [customer_id |-> Missing, messages |-> <<>>]

\* verify_info wrapped in a handler that turns a failed call into the
\* clarifying prompt instead of letting the exception out
verify_info_call_swallowed(state, parsed, down) ==
    LET r == verify_info(state, parsed) IN
    IF down \in r.called
    THEN [raised |-> FALSE, identifier |-> r.identifier,
          called |-> {c \in r.called : CallOrder(c) <= CallOrder(down)},
          update |-> [customer_id |-> Missing, messages |-> <<ClarifyingResponse>>]]
    ELSE r

\* verify_info while capability `down` is unavailable (None: all are up):
\* the first call of `down` raises, nothing catches it, and what the
\* function would have returned is lost
verify_info_call(state, parsed, down) ==
    LET r == verify_info(state, parsed) IN
    IF down \in r.called
    THEN [raised |-> TRUE,
          identifier |-> IF down = "extraction" THEN None ELSE r.identifier,
          called |-> {c \in r.called : CallOrder(c) <= CallOrder(down)},
          update |-> NothingReturned]
    ELSE r

\* should_interrupt testing truthiness instead of `is not None`
should_interrupt_truthy(state) ==
    IF state.customer_id # None /\ state.customer_id # ""
    THEN "continue" ELSE "interrupt"

\* should_interrupt with its two labels exchanged
should_interrupt_swapped(state) ==
    IF state.customer_id # None THEN "interrupt" ELSE "continue"

\* the conditional edge
should_interrupt(state) ==
    IF state.customer_id # None THEN "continue" ELSE "interrupt"

\* the path map with its two targets exchanged
PathMap_swapped(label) == IF label = "continue" THEN "human_input" ELSE "supervisor"

\* the path map of add_conditional_edges
PathMap(label) == IF label = "continue" THEN "supervisor" ELSE "human_input"

\* human_input returning an update that leaves the value out
human_input_dropped(user_input) == [messages |-> <<>>]

\* human_input once interrupt() has returned `user_input`
human_input(user_input) == [messages |-> <<user_input>>]

(* ---------------------------------------------------- the webhook service *)
\* webhook requests in flight at the same time
Requests == {"r1", "r2"}

\* a request before its handler has done anything; sha 0 stands for no sha
\* (None or an empty string), status 0 for no answer
NewRequest ==
    [pc |-> "start", gets |-> 0, puts |-> 0,
     get_status |-> 0, get_neterr |-> FALSE, sha |-> 0,
     put_sha |-> 0, put_status |-> 0, put_neterr |-> FALSE, response |-> 0]

\* httpx Response.raise_for_status: raises unless the status is 2xx
raises_for_status(code) == code < 200 \/ code > 299

\* what GitHub can answer to the GET of the file: the sha of the file or 404,
\* a 200 whose body carries no usable sha, another success status, an error
\* status, or no answer at all (httpx.RequestError)
GetAnswers ==
    {[neterr |-> TRUE, status |-> 0, sha |-> 0]}
    \cup {[neterr |-> FALSE, status |-> c, sha |-> 0] : c \in {204, 403, 500}}
    \cup (IF github.exists
          THEN {[neterr |-> FALSE, status |-> 200, sha |-> github.sha],
                [neterr |-> FALSE, status |-> 200, sha |-> 0]}
          ELSE {[neterr |-> FALSE, status |-> 404, sha |-> 0]})

\* what GitHub can answer to a PUT carrying `sha` (0: no sha field): the
\* file is created (201) or updated (200) when the sha fits, 409 on a stale
\* sha, 422 on a missing one, an error status, or no answer
PutAnswers(sha) ==
    {[neterr |-> TRUE, status |-> 0], [neterr |-> FALSE, status |-> 403],
     [neterr |-> FALSE, status |-> 500]}
    \cup {[neterr |-> FALSE,
           status |-> IF github.exists
                      THEN (IF sha = github.sha THEN 200
                            ELSE IF sha = 0 THEN 422 ELSE 409)
                      ELSE (IF sha = 0 THEN 201 ELSE 409)]}

\* first half of commit_manifest_to_github: the GET of the current sha and
\* what the handler makes of the answer
GetFileSha(r) ==
    /\ request[r].pc = "start"
    /\ \E a \in GetAnswers :
         LET q == [request[r] EXCEPT !.gets = @ + 1,
                                     !.get_status = a.status,
                                     !.get_neterr = a.neterr]
         IN request' = [request EXCEPT ![r] =
              IF a.neterr
              THEN [q EXCEPT !.pc = "done", !.response = 503]
              ELSE IF a.status = 200
              THEN [q EXCEPT !.pc = "put", !.sha = a.sha]
              ELSE IF a.status # 404 /\ raises_for_status(a.status)
              THEN [q EXCEPT !.pc = "done", !.response = a.status]
              ELSE [q EXCEPT !.pc = "put"]]
    /\ UNCHANGED <<github, customer_id, messages, remaining_steps, pc, status,
                   resume, identifier, called, outage>>

\* second half: the PUT, carrying the sha when there is one, GitHub acting
\* on it, and handle_webhook_direct_commit answering 201 or the error
PutContent(r) ==
    /\ request[r].pc = "put"
    /\ LET sha == IF request[r].sha # 0 THEN request[r].sha ELSE 0 IN
       \E a \in PutAnswers(sha) :
         /\ request' = [request EXCEPT ![r] =
               [@ EXCEPT !.pc = "done", !.puts = @ + 1, !.put_sha = sha,
                         !.put_status = a.status, !.put_neterr = a.neterr,
                         !.response = IF a.neterr THEN 503
                                      ELSE IF raises_for_status(a.status)
                                      THEN a.status ELSE 201]]
         /\ github' = IF ~a.neterr /\ ~raises_for_status(a.status)
                      THEN [exists |-> TRUE, sha |-> github.sha + 1]
                      ELSE github
    /\ UNCHANGED <<customer_id, messages, remaining_steps, pc, status,
                   resume, identifier, called, outage>>

(* ----------------------------------------------------------------- Init *)
\* no webhook request has arrived
HookIdle ==
    /\ github = [exists |-> FALSE, sha |-> 0]
    /\ request = [r \in Requests |-> NewRequest]

Init ==
    /\ HookIdle
    /\ customer_id = [t \in Threads |-> None]
    /\ messages = [t \in Threads |-> <<>>]
    /\ remaining_steps = [t \in Threads |-> StepBudget]
    /\ pc = [t \in Threads |-> "__start__"]
    /\ status = [t \in Threads |-> "idle"]
    /\ resume = [t \in Threads |-> None]
    /\ identifier = [t \in Threads |-> None]
    /\ called = [t \in Threads |-> {}]
    /\ outage = [t \in Threads |-> None]

\* the inputs of graph.ainvoke(inputs, config)
InputMessages == UNION {[1..n -> Texts] : n \in 0..MaxInput}

Inputs == [customer_id : InputCustomerIds, messages : InputMessages]

(* -------------------------------------------------------------- actions *)
\* graph.ainvoke(inputs, config) on a fresh thread: START -> verify_info
Invoke(t, inputs) ==
    /\ status[t] = "idle"
    /\ pc[t] = "__start__"
    /\ customer_id' = [customer_id EXCEPT ![t] = inputs.customer_id]
    /\ messages' = [messages EXCEPT
                      ![t] = add_messages(@, convert_to_messages(inputs.messages))]
    /\ pc' = [pc EXCEPT ![t] = "verify_info"]
    /\ status' = [status EXCEPT ![t] = "running"]
    /\ UNCHANGED <<remaining_steps, resume, identifier, called, outage, hookvars>>

\* one run of the verify_info node while capability `down` is unavailable
\* (None: all are up); an exception leaves the checkpoint as it was and
\* ends the invocation
RunVerifyInfo(t, down) ==
    /\ status[t] = "running"
    /\ pc[t] = "verify_info"
    /\ \E parsed \in ExtractionOutcomes :
         LET r == verify_info_call(State(t), parsed, down) IN
         /\ identifier' = [identifier EXCEPT ![t] = r.identifier]
         /\ called' = [called EXCEPT ![t] = r.called]
         /\ outage' = [outage EXCEPT ![t] = IF down \in r.called THEN down ELSE None]
         /\ IF r.raised
            THEN /\ status' = [status EXCEPT ![t] = "error"]
                 /\ UNCHANGED <<customer_id, messages, pc>>
            ELSE /\ customer_id' = [customer_id EXCEPT
                                      ![t] = last_value(@, r.update.customer_id)]
                 /\ messages' = [messages EXCEPT
                                   ![t] = add_messages(@, r.update.messages)]
                 /\ pc' = [pc EXCEPT ![t] = "should_interrupt"]
                 /\ UNCHANGED status
    /\ UNCHANGED <<remaining_steps, resume, hookvars>>

\* the verify_info node, every capability available
VerifyInfo(t) == RunVerifyInfo(t, None)

\* the verify_info node while one of the capabilities is unavailable
VerifyInfoOutage(t) == \E down \in Capabilities : RunVerifyInfo(t, down)

\* the conditional edge after verify_info
ShouldInterrupt(t) ==
    /\ status[t] = "running"
    /\ pc[t] = "should_interrupt"
    /\ pc' = [pc EXCEPT ![t] = PathMap(should_interrupt(State(t)))]
    /\ UNCHANGED <<customer_id, messages, remaining_steps, status, resume,
                   identifier, called, outage, hookvars>>

\* human_input writing the resumed value into one message list that all
\* threads share instead of the update of its own thread
HumanInput_shared(t) ==
    /\ status[t] = "running"
    /\ pc[t] = "human_input"
    /\ \/ /\ resume[t] = None
          /\ status' = [status EXCEPT ![t] = "interrupted"]
          /\ UNCHANGED <<messages, pc, resume>>
       \/ /\ resume[t] # None
          /\ messages' = [u \in Threads |->
                            add_messages(messages[u],
                               convert_to_messages(human_input(resume[t]).messages))]
          /\ resume' = [resume EXCEPT ![t] = None]
          /\ pc' = [pc EXCEPT ![t] = "verify_info"]
          /\ UNCHANGED status
    /\ UNCHANGED <<customer_id, remaining_steps, identifier, called, outage, hookvars>>

\* the human_input node: interrupt() raises when no resume value is there
\* and the invocation returns; with one, the node returns its update
HumanInput(t) ==
    /\ status[t] = "running"
    /\ pc[t] = "human_input"
    /\ \/ /\ resume[t] = None
          /\ status' = [status EXCEPT ![t] = "interrupted"]
          /\ UNCHANGED <<messages, pc, resume>>
       \/ /\ resume[t] # None
          /\ messages' = [messages EXCEPT
                            ![t] = add_messages(@,
                                      convert_to_messages(human_input(resume[t]).messages))]
          /\ resume' = [resume EXCEPT ![t] = None]
          /\ pc' = [pc EXCEPT ![t] = "verify_info"]
          /\ UNCHANGED status
    /\ UNCHANGED <<customer_id, remaining_steps, identifier, called, outage, hookvars>>

\* graph.ainvoke(Command(resume=value), config) on an interrupted thread
Resume(t, value) ==
    /\ status[t] = "interrupted"
    /\ Len(messages[t]) < MaxLog
    /\ resume' = [resume EXCEPT ![t] = value]
    /\ status' = [status EXCEPT ![t] = "running"]
    /\ identifier' = [identifier EXCEPT ![t] = None]
    /\ called' = [called EXCEPT ![t] = {}]
    /\ UNCHANGED <<customer_id, messages, remaining_steps, pc, outage, hookvars>>

\* the supervisor node (the work pipeline), then the edge to END
Supervisor(t) ==
    /\ status[t] = "running"
    /\ pc[t] = "supervisor"
    /\ \E n \in 1..MaxWork :
         /\ n <= remaining_steps[t]
         /\ messages' = [messages EXCEPT
                           ![t] = add_messages(@, [i \in 1..n |-> SupervisorResponse])]
         /\ remaining_steps' = [remaining_steps EXCEPT ![t] = @ - n]
    /\ pc' = [pc EXCEPT ![t] = "__end__"]
    /\ status' = [status EXCEPT ![t] = "done"]
    /\ UNCHANGED <<customer_id, resume, identifier, called, outage, hookvars>>

Next ==
    \E t \in Threads :
        \/ \E inputs \in Inputs : Invoke(t, inputs)
        \/ VerifyInfo(t)
        \/ ShouldInterrupt(t)
        \/ HumanInput(t)
        \/ \E value \in Texts : Resume(t, value)
        \/ Supervisor(t)

Spec == Init /\ [][Next]_vars

\* an invocation, once started, runs the scheduled node of its thread until
\* the graph ends, interrupts or raises
GraphStep(t) == VerifyInfo(t) \/ ShouldInterrupt(t) \/ HumanInput(t) \/ Supervisor(t)

\* what the caller and the graph can do on thread t
ThreadNext(t) ==
    \/ \E inputs \in Inputs : Invoke(t, inputs)
    \/ GraphStep(t)
    \/ \E value \in Texts : Resume(t, value)

\* one conversation followed on its own (threads do not interact), its
\* invocations running on once started
LoneThread == CHOOSE t \in Threads : TRUE

FairSpec ==
    /\ Init
    /\ [][ThreadNext(LoneThread)]_vars
    /\ WF_vars(GraphStep(LoneThread))

\* the same graph with capabilities that can be unavailable when called
NextOutage ==
    \/ Next
    \/ \E t \in Threads : VerifyInfoOutage(t)

SpecOutage == Init /\ [][NextOutage]_vars

\* the webhook service alone: the file is there or not when requests arrive
InitHook ==
    /\ customer_id = [t \in Threads |-> None]
    /\ messages = [t \in Threads |-> <<>>]
    /\ remaining_steps = [t \in Threads |-> StepBudget]
    /\ pc = [t \in Threads |-> "__start__"]
    /\ status = [t \in Threads |-> "idle"]
    /\ resume = [t \in Threads |-> None]
    /\ identifier = [t \in Threads |-> None]
    /\ called = [t \in Threads |-> {}]
    /\ outage = [t \in Threads |-> None]
    /\ github \in {[exists |-> FALSE, sha |-> 0], [exists |-> TRUE, sha |-> 1]}
    /\ request = [r \in Requests |-> NewRequest]

NextHook ==
    \E r \in Requests :
        \/ GetFileSha(r)
        \/ PutContent(r)

SpecHook == InitHook /\ [][NextHook]_vars

(* --------------------------------------------------------------- claims *)
\* the state is unset / holds a usable identifier
Unset(cid) == cid = None

NonEmpty(cid) == cid # None /\ cid # ""

\* C1: the routing decision of every thread picks `continue` (the supervisor)
\* exactly when customer_id is set and `interrupt` (human_input) exactly when
\* it is unset, and the step leaves customer_id, messages and
\* remaining_steps as they were.
C1_RoutingDecision ==
    [][\A t \in Threads :
         (pc[t] = "should_interrupt" /\ pc'[t] # pc[t]) =>
            /\ (pc'[t] = "supervisor" <=> ~Unset(customer_id[t]))
            /\ (pc'[t] = "human_input" <=> Unset(customer_id[t]))
            /\ State(t)' = State(t)]_vars

\* both outcomes of the routing decision have happened
C1_Witness ==
    \E t, u \in Threads :
        /\ pc[t] = "supervisor" /\ ~Unset(customer_id[t])
        /\ pc[u] = "human_input" /\ Unset(customer_id[u])

\* C2: once customer_id of a thread is non-empty it stays non-empty and no
\* later step of that thread enters human_input.
C2_NoSuspendOnceVerified ==
    [][\A t \in Threads :
         NonEmpty(customer_id[t]) =>
            /\ NonEmpty(customer_id'[t])
            /\ pc[t] # "human_input"
            /\ pc'[t] # "human_input"]_vars

\* a thread verified by the gate after a suspension has been routed on
C2_Witness ==
    \E t \in Threads :
        /\ customer_id[t] = "10"
        /\ pc[t] = "supervisor"
        /\ Len(messages[t]) >= 4

C4_GateNoOpWhenSet ==
    [][\A t \in Threads :
         (pc[t] = "verify_info" /\ customer_id[t] # None /\ pc'[t] # pc[t]) =>
            /\ messages'[t] = messages[t]
            /\ customer_id'[t] = customer_id[t]
            /\ remaining_steps'[t] = remaining_steps[t]
            /\ called'[t] = {}
            /\ status'[t] = "running"]_vars

\* the gate has passed through a state with customer_id set and a message
\* that carries an identifier
C4_Witness ==
    \E t \in Threads :
        /\ pc[t] = "should_interrupt"
        /\ customer_id[t] = "42"
        /\ messages[t] = <<HumanMessage("My customer ID is 10")>>

\* verify_info has run on thread t in this step (it returned or it raised)
GateStep(t) ==
    /\ pc[t] = "verify_info"
    /\ status[t] = "running"
    /\ (pc'[t] # pc[t] \/ status'[t] # status[t])

\* the extraction found a candidate and the resolution answered non-empty
Accepted(ident) ==
    /\ ident # None
    /\ ident # ""
    /\ get_customer_id_from_identifier(ident) # ""

\* C5: every run of verify_info with customer_id unset appends exactly one
\* message; it sets customer_id, appending the confirmation, exactly when
\* the extraction found a candidate that the resolution accepted, and
\* otherwise appends the clarifying response and leaves customer_id unset.
C5_GateAppendsExactlyOne ==
    [][\A t \in Threads :
         (GateStep(t) /\ customer_id[t] = None) =>
            /\ Len(messages'[t]) = Len(messages[t]) + 1
            /\ SubSeq(messages'[t], 1, Len(messages[t])) = messages[t]
            /\ (customer_id'[t] # None <=> Accepted(identifier'[t]))
            /\ IF Accepted(identifier'[t])
               THEN /\ customer_id'[t] = get_customer_id_from_identifier(identifier'[t])
                    /\ messages'[t][Len(messages'[t])]
                         = SystemMessage(ConfirmationText(customer_id'[t]))
               ELSE /\ customer_id'[t] = None
                    /\ messages'[t][Len(messages'[t])] = ClarifyingResponse]_vars

\* C6: verify_info on an empty message list with customer_id unset appends
\* the clarifying response, leaves customer_id unset and does not fail, so
\* that the thread goes on to the routing decision and is suspended.
C6_EmptyLogAsksAgain ==
    [][\A t \in Threads :
         (GateStep(t) /\ customer_id[t] = None /\ messages[t] = <<>>) =>
            /\ status'[t] = "running"
            /\ pc'[t] = "should_interrupt"
            /\ messages'[t] = <<ClarifyingResponse>>
            /\ customer_id'[t] = None]_vars

\* C7: whenever the work pipeline is entered, customer_id is a non-empty
\* identifier.
C7_ContinueImpliesNonEmpty ==
    \A t \in Threads : pc[t] = "supervisor" => NonEmpty(customer_id[t])

\* C8: leaving human_input means a resume value was there, exactly that value
\* was appended as one human message and the thread is back at verify_info,
\* still running; when the gate then accepts an identifier it sets
\* customer_id, the routing decision picks the supervisor, and the
\* supervisor ends the same invocation in done.
C8_ResumeThenVerify ==
    [][\A t \in Threads :
         /\ (pc[t] = "human_input" /\ pc'[t] # pc[t]) =>
               /\ resume[t] # None
               /\ messages'[t] = Append(messages[t], HumanMessage(resume[t]))
               /\ customer_id'[t] = customer_id[t]
               /\ pc'[t] = "verify_info"
               /\ status'[t] = "running"
         /\ (GateStep(t) /\ customer_id[t] = None /\ Accepted(identifier'[t])) =>
               /\ customer_id'[t] = get_customer_id_from_identifier(identifier'[t])
               /\ pc'[t] = "should_interrupt"
               /\ status'[t] = "running"
         /\ (pc[t] = "should_interrupt" /\ NonEmpty(customer_id[t]) /\ pc'[t] # pc[t]) =>
               /\ pc'[t] = "supervisor"
               /\ status'[t] = "running"
         /\ (pc[t] = "supervisor" /\ pc'[t] # pc[t]) =>
               /\ pc'[t] = "__end__"
               /\ status'[t] = "done"]_vars

\* a thread that was suspended, resumed with "My customer ID is 10" and
\* verified as customer 10 has ended
C8_Witness ==
    \E t \in Threads :
        /\ status[t] = "done"
        /\ customer_id[t] = "10"
        /\ identifier[t] = "10"
        /\ Len(messages[t]) >= 4
        /\ messages[t][2] = ClarifyingResponse
        /\ messages[t][3] = HumanMessage("My customer ID is 10")
        /\ messages[t][4] = SystemMessage(ConfirmationText("10"))

\* the control state of the state machine a node stands for
ControlState(node) ==
    CASE node = "__start__" -> "start"
      [] node \in {"verify_info", "should_interrupt"} -> "verify"
      [] node = "human_input" -> "suspended"
      [] node = "supervisor" -> "working"
      [] node = "__end__" -> "done"

Transitions ==
    {<<"start", "verify">>, <<"verify", "working">>, <<"verify", "suspended">>,
     <<"suspended", "verify">>, <<"working", "done">>}

\* C9: every thread starts at start, its control state changes only along
\* start->verify, verify->working (routing decision continue),
\* verify->suspended (routing decision interrupt), suspended->verify (a
\* resume value was there) and working->done; nothing leaves done and
\* working is entered from verify only.
C9_TransitionTable ==
    /\ \A t \in Threads : ControlState(pc[t]) = "start"
    /\ [][\A t \in Threads :
            LET a == ControlState(pc[t])
                b == ControlState(pc'[t])
            IN a # b =>
                 /\ <<a, b>> \in Transitions
                 /\ b = "working" => should_interrupt(State(t)) = "continue"
                 /\ b = "suspended" => should_interrupt(State(t)) = "interrupt"
                 /\ a = "suspended" => resume[t] # None]_vars

\* one thread has gone start, verify, suspended, verify, working, done and
\* another is suspended
C9_Witness ==
    \E t, u \in Threads :
        /\ ControlState(pc[t]) = "done"
        /\ Len(messages[t]) >= 4
        /\ messages[t][2] = ClarifyingResponse
        /\ ControlState(pc[u]) = "suspended"

\* C10: whenever an invocation has handed control back, the thread is in
\* done or suspended; while a thread is suspended with control handed
\* back, nothing of its state changes until a resume call arrives.
C10_YieldOnlyWhenSuspendedOrDone ==
    /\ [](\A t \in Threads :
            status[t] \notin {"idle", "running"} =>
               \/ status[t] = "done" /\ pc[t] = "__end__"
               \/ status[t] = "interrupted" /\ pc[t] = "human_input")
    /\ [][\A t \in Threads :
            status[t] = "interrupted" =>
               /\ State(t)' = State(t)
               /\ pc'[t] = pc[t]
               /\ \/ status'[t] = "interrupted" /\ resume'[t] = None
                  \/ status'[t] = "running" /\ resume'[t] # None]_vars

\* C11: a verify_info run that calls a capability while it is unavailable
\* ends the invocation in an error, having changed neither customer_id nor
\* messages nor the position of the thread; the failed call is the last one
\* made, and nothing runs on the thread afterwards (no retry).
C11_OutageIsFatal ==
    [][\A t \in Threads :
         /\ (GateStep(t) /\ outage'[t] # None) =>
               /\ status'[t] = "error"
               /\ State(t)' = State(t)
               /\ pc'[t] = pc[t]
               /\ outage'[t] \in called'[t]
               /\ \A c \in called'[t] : CallOrder(c) <= CallOrder(outage'[t])
         /\ status[t] = "error" =>
               /\ status'[t] = "error"
               /\ State(t)' = State(t)
               /\ pc'[t] = pc[t]
               /\ called'[t] = called[t]
               /\ outage'[t] = outage[t]]_vars

\* a resumed thread failed at the clarifying response, after the extraction
\* and the resolution had answered, and another at the extraction
C11_Witness ==
    \E t, u \in Threads :
        /\ status[t] = "error" /\ outage[t] = "response"
        /\ called[t] = Capabilities
        /\ Len(messages[t]) = 3
        /\ status[u] = "error" /\ outage[u] = "extraction"

\* everything the checkpointer and the running invocation hold of thread t
ThreadState(t) ==
    <<customer_id[t], messages[t], remaining_steps[t], pc[t], status[t],
      resume[t], identifier[t], called[t], outage[t]>>

\* C12: under every interleaving of the invocations and resumes of two
\* threads, a step that changes anything of one thread leaves customer_id,
\* messages, the position and the status of the other thread unchanged.
C12_ThreadsIndependent ==
    [][\A t, u \in Threads :
         (t # u /\ ThreadState(t)' # ThreadState(t)) =>
            /\ customer_id'[u] = customer_id[u]
            /\ messages'[u] = messages[u]
            /\ remaining_steps'[u] = remaining_steps[u]
            /\ pc'[u] = pc[u]
            /\ status'[u] = status[u]]_vars

\* two threads have interleaved: one was resumed, verified and is done while
\* the other, resumed as well, is suspended again and still unverified
C12_Witness ==
    \E t, u \in Threads :
        /\ t # u
        /\ status[t] = "done" /\ customer_id[t] = "10"
        /\ messages[t][3] = HumanMessage("My customer ID is 10")
        /\ status[u] = "interrupted" /\ customer_id[u] = None
        /\ Len(messages[u]) = 4

IsPrefix(old, new) ==
    /\ Len(old) <= Len(new)
    /\ SubSeq(new, 1, Len(old)) = old

\* C13: every step of verify_info, of its routing decision and of
\* human_input (suspension and resumption) keeps the messages that were
\* there, in their order, adding at the end only, and leaves
\* remaining_steps as it was.
C13_MessagesAppendOnly ==
    [][\A t \in Threads :
         pc[t] \in {"verify_info", "should_interrupt", "human_input"} =>
            /\ IsPrefix(messages[t], messages'[t])
            /\ Len(messages'[t]) <= Len(messages[t]) + 1
            /\ remaining_steps'[t] = remaining_steps[t]]_vars

\* a thread whose log grew by a clarifying prompt, a resumed value and a
\* second clarifying prompt on top of its input
C13_Witness ==
    \E t \in Threads :
        /\ status[t] = "interrupted"
        /\ Len(messages[t]) = 4
        /\ messages[t][1] = HumanMessage("hello")
        /\ messages[t][2] = ClarifyingResponse
        /\ messages[t][3] = HumanMessage("My customer ID is 10")
        /\ messages[t][4] = ClarifyingResponse
        /\ remaining_steps[t] = StepBudget

\* C14: with every capability available and each invocation running on, a
\* thread whose gate has accepted an identifier reaches done, and every
\* resume ends in done or in a new suspension; a thread whose resumes do not
\* resolve stays unverified, is sent back to human_input each time, never
\* reaches the supervisor, and can be resumed again whatever the number of
\* cycles behind it (up to the bound on the log).
C14_VerifiedEventuallyDone ==
    /\ \A t \in Threads :
          (status[t] = "running" /\ NonEmpty(customer_id[t])) ~> (status[t] = "done")
    /\ \A t \in Threads :
          (resume[t] # None) ~> (status[t] \in {"done", "interrupted"})
    /\ [](\A t \in Threads :
            /\ pc[t] \in {"supervisor", "__end__"} => customer_id[t] # None
            /\ (status[t] = "interrupted" /\ Len(messages[t]) < MaxLog) =>
                  ENABLED (\E value \in Texts : Resume(t, value)))
    /\ [][\A t \in Threads :
            /\ (GateStep(t) /\ customer_id[t] = None /\ ~Accepted(identifier'[t])) =>
                  customer_id'[t] = None
            /\ (pc[t] = "should_interrupt" /\ customer_id[t] = None /\ pc'[t] # pc[t]) =>
                  pc'[t] = "human_input"]_vars

\* a thread went through two suspensions, its first resume unresolved, was
\* verified on the second resume and is done
C14_Witness ==
    \E t \in Threads :
        /\ status[t] = "done" /\ NonEmpty(customer_id[t])
        /\ Len(messages[t]) >= 7
        /\ messages[t][2] = ClarifyingResponse
        /\ messages[t][4] = ClarifyingResponse
        /\ messages[t][6] = SystemMessage(ConfirmationText(customer_id[t]))

\* the GitHub status a failed call was answered with
Failed(neterr, code) == neterr \/ raises_for_status(code)

\* C15: each webhook request issues one GET and at most one PUT, the PUT
\* after the GET and only if the GET answered 200 or 404; the PUT carries a
\* sha exactly when the GET answered 200 with a non-empty sha; a GET that
\* failed ends the request with the GitHub status (503 on a network error)
\* and no PUT; a failed PUT ends it with the GitHub status and not with 201.
C15_OneGetAtMostOnePut ==
    \A r \in Requests :
        LET q == request[r] IN
        /\ q.gets <= 1 /\ q.puts <= 1
        /\ q.pc # "start" => q.gets = 1
        /\ q.puts = 1 => q.gets = 1
        /\ q.puts = 1 => (~q.get_neterr /\ q.get_status \in {200, 404})
        /\ q.puts = 1 => /\ q.put_sha # 0 <=> (q.get_status = 200 /\ q.sha # 0)
                         /\ q.put_sha # 0 => q.put_sha = q.sha
        /\ (q.pc = "done" /\ q.get_neterr) => (q.puts = 0 /\ q.response = 503)
        /\ (q.pc = "done" /\ ~q.get_neterr /\ q.get_status \notin {200, 404}) =>
              (q.puts = 0 /\ q.response = q.get_status)
        /\ (q.pc = "done" /\ q.puts = 1 /\ ~q.put_neterr
               /\ raises_for_status(q.put_status)) =>
              (q.response = q.put_status /\ q.response # 201)
        /\ (q.pc = "done" /\ q.puts = 1 /\ q.put_neterr) => q.response # 201
        /\ q.response = 201 =>
              (q.puts = 1 /\ ~Failed(q.put_neterr, q.put_status))

====
